---- MODULE Spec2Model ----
(***************************************************************************)
(* A model of songbird (src/songbird.py), the Textual application that     *)
(* indexes a music library, serves it over HTTP and drives one Sonos       *)
(* device, with the earlier revision src/sisc.py where it differs.         *)
(*                                                                         *)
(* Text is modelled as a sequence of tokens (or of characters where the    *)
(* code slices or compares character by character), the device as a        *)
(* record that the SoCo calls of the source read and write, and every      *)
(* textual worker as a record in `workers` that advances one device call   *)
(* at a time.                                                              *)
(***************************************************************************)
EXTENDS Integers, Sequences, FiniteSets, TLC

VARIABLES
    records,      \* what fetch_music() returns: <<artist, album, trackno, url>>
    music_index,  \* ControllerApp.music_index: key -> sequence of paths
    load_pc,      \* load_music_library worker: "pending" | "done" | "failed"
    loading,      \* AlbumList.loading
    rows,         \* rows of the AlbumList table
    sonos,        \* ControllerApp.sonos: "None" | "device"
    find_pc,      \* find_sonos worker: "pending" | "found" | "timer" | "failed"
    timer,        \* ControllerApp.timer: "None" | "active" | "paused"
    dev,          \* the state of the Sonos device
    workers,      \* the workers of group "playback_control", in submission order;
                  \* early: self.sonos was None when the command was issued,
                  \* sawNone: the worker found self.sonos None,
                  \* ncalls: the device calls the worker has made, last: the
                  \* last of them, reltime: track_info['position']
    app,          \* "running" | "exited" (self.exit was called) | "crashed" (a
                  \* worker or a handler raised and the application ended)
    ticks,        \* the update_now_playing workers in flight
    renderable,   \* the renderable of the #now-playing widget
    mutations,    \* the changes made to widgets so far: <<widget, thread>>
    screen,       \* the screen on top of the stack: "main" | "help"
    http_pc,      \* spawn_http worker: "pending" | "bound" | "failed" | "closed"
    bind_errno,   \* err.errno of the OSError of site.start(), 0 for none
    return_code,  \* the return_code handed to App.exit
    return_value, \* the result handed to App.exit, <<>> for None
    unmount_pc,   \* on_unmount: "None" | "stop" | "clear" | "cleanup" | "done" | "error"
    unmount_calls,\* the device calls on_unmount has made
    main_pc,      \* main(): "running" | "returned"
    stderr,       \* what main() printed to sys.stderr
    status        \* what main() returned to sys.exit

vars == <<records, music_index, load_pc, loading, rows, sonos, find_pc, timer,
          dev, workers, app, ticks, renderable, mutations, screen, http_pc,
          bind_errno, return_code, return_value, unmount_pc, unmount_calls,
          main_pc, stderr, status>>

libVars == <<records, music_index, load_pc, loading, rows>>
pollVars == <<ticks, renderable>>
httpVars == <<http_pc, bind_errno, return_code, return_value>>
exitVars == <<unmount_pc, unmount_calls, main_pc, stderr, status>>
shellVars == <<mutations, screen, httpVars, exitVars>>

(***************************************************************************)
(* Bounds of the model.                                                    *)
(***************************************************************************)
MaxCommands == 1
MaxSelections == 2
MaxRecords == 3
MaxPresses == 2
MaxTicks == 2
MaxCatalog == 1

(***************************************************************************)
(* Sequences and text.                                                     *)
(***************************************************************************)
Range(s) == {s[i] : i \in DOMAIN s}

startswith(s, p) == Len(s) >= Len(p) /\ SubSeq(s, 1, Len(p)) = p

removeprefix(s, p) == IF startswith(s, p) THEN SubSeq(s, Len(p) + 1, Len(s)) ELSE s

http_host == "192.168.0.2"
http_port == 8080
user_music_dir == "/home/u/Music"

\* f"http://{self.http_host}:{self.http_port}{location}"
Uri(location) == <<"http://", http_host, ":", ToString(http_port)>> \o location

(***************************************************************************)
(* The catalog and the library index (load_music_library).                 *)
(***************************************************************************)
Artists == {"Ann", "Bob"}
Albums == {"X", "Y"}
TrackNumbers == {1, 2}

\* The file URLs of the catalog: one under the music root, one file:// URL
\* outside it, and one that does not carry the file:// scheme.
Urls == { <<"file://", user_music_dir, "/1.flac">>,
          <<"file://", "/srv", "/2.flac">>,
          <<"smb://", "/nas", "/3.flac">> }

CatalogRecords == Artists \X Albums \X TrackNumbers \X Urls

\* Python orders str by code point; the tokens of the model in that order.
StrOrder == <<"/1.flac", "/2.flac", "/3.flac", "/Ann/X/1.flac", "/Ann/X/2.flac",
              "/Bob/Y/1.flac", "/home/u/Music", "/nas", "/srv",
              "Ann", "Bob", "X", "Y", "file://", "smb://">>

Rank(s) == CHOOSE i \in DOMAIN StrOrder : StrOrder[i] = s

RECURSIVE TextLess(_, _)
TextLess(a, b) ==
    IF a = <<>> THEN b # <<>>
    ELSE IF b = <<>> THEN FALSE
    ELSE IF Head(a) # Head(b) THEN Rank(Head(a)) < Rank(Head(b))
    ELSE TextLess(Tail(a), Tail(b))

\* The order of the tuples (artist, album, trackno, url) under sorted().
RecordLess(a, b) ==
    IF a[1] # b[1] THEN Rank(a[1]) < Rank(b[1])
    ELSE IF a[2] # b[2] THEN Rank(a[2]) < Rank(b[2])
    ELSE IF a[3] # b[3] THEN a[3] < b[3]
    ELSE TextLess(a[4], b[4])

RECURSIVE Insert(_, _)
Insert(r, s) ==
    IF s = <<>> THEN <<r>>
    ELSE IF RecordLess(r, Head(s)) THEN <<r>> \o s
    ELSE <<Head(s)>> \o Insert(r, Tail(s))

\* sorted() left out: the records in the order of the catalog's answer.
unsorted(s) == s

RECURSIVE sorted(_)
sorted(s) == IF s = <<>> THEN <<>> ELSE Insert(s[Len(s)], sorted(SubSeq(s, 1, Len(s) - 1)))

\* self.music_index[artist, album].append(trimmed_path) on a defaultdict(list)
IndexAppend(idx, key, path) ==
    IF key \in DOMAIN idx
    THEN [idx EXCEPT ![key] = Append(@, path)]
    ELSE [k \in DOMAIN idx \cup {key} |-> IF k = key THEN <<path>> ELSE idx[k]]

\* The loop of load_music_library over the sorted records, from record i on:
\* the index it leaves, the keys in insertion order, and whether the assert held.
RECURSIVE IndexLoop(_, _, _, _)
IndexLoop(idx, keys, recs, i) ==
    IF i > Len(recs) THEN [index |-> idx, keys |-> keys, ok |-> TRUE]
    ELSE LET artist == recs[i][1]
             album == recs[i][2]
             location == recs[i][4]
             trimmed_path == removeprefix(location, <<"file://", user_music_dir>>)
         IN  IF ~startswith(location, <<"file://">>)
             THEN [index |-> idx, keys |-> keys, ok |-> FALSE]
             ELSE IndexLoop(IndexAppend(idx, <<artist, album>>, trimmed_path),
                            IF <<artist, album>> \in DOMAIN idx THEN keys
                            ELSE Append(keys, <<artist, album>>),
                            recs, i + 1)

EmptyIndex == [k \in {} |-> <<>>]

\* @work(thread=True) load_music_library: the index is filled, then the table
\* gets its rows and stops loading; a failed assert ends the worker with an
\* error, which ends the application.
load_music_library ==
    /\ load_pc = "pending"
    /\ LET r == IndexLoop(music_index, <<>>, sorted(records), 1)
       IN  /\ music_index' = r.index
           /\ IF r.ok
              THEN /\ rows' = r.keys
                   /\ loading' = FALSE
                   /\ mutations' = mutations \cup {<<"AlbumList", "worker">>}
                   /\ load_pc' = "done"
                   /\ app' = app
              ELSE /\ load_pc' = "failed"
                   /\ app' = "crashed"
                   /\ UNCHANGED <<rows, loading, mutations>>
    /\ UNCHANGED <<screen, httpVars, exitVars>>
    /\ UNCHANGED <<records, sonos, find_pc, timer, dev, workers,
                   ticks, renderable>>

(***************************************************************************)
(* The device: what the SoCo calls of the source do to it.                 *)
(***************************************************************************)
\* self.sonos.clear_queue(): the queue is emptied; a device playing from its
\* queue has nothing left to play.
DevClearQueue(d) ==
    [d EXCEPT !.queue = <<>>, !.track = 0,
              !.transport = IF d.source = "queue" THEN "STOPPED" ELSE @]

\* self.sonos.add_uri_to_queue(uri)
DevAddUriToQueue(d, uri) == [d EXCEPT !.queue = Append(@, uri)]

\* self.sonos.play(): resumes whatever the transport is set to.
DevPlay(d) == [d EXCEPT !.transport = "PLAYING"]

\* self.sonos.play_from_queue(index): points the transport at the queue and
\* plays entry index of it.
DevPlayFromQueue(d, index) ==
    [d EXCEPT !.source = "queue", !.track = index, !.transport = "PLAYING",
              !.position = <<0, 0, 0>>]

\* self.sonos.pause()
DevPause(d) == [d EXCEPT !.transport = "PAUSED_PLAYBACK"]

\* self.sonos.stop()
DevStop(d) == [d EXCEPT !.transport = "STOPPED"]

\* self.sonos.next()
DevNext(d) ==
    [d EXCEPT !.track = IF @ + 1 < Len(d.queue) THEN @ + 1 ELSE @,
              !.position = <<0, 0, 0>>]

\* self.sonos.previous()
DevPrevious(d) ==
    [d EXCEPT !.track = IF @ > 0 THEN @ - 1 ELSE @, !.position = <<0, 0, 0>>]

\* self.sonos.seek("00:00:00")
DevSeek(d) == [d EXCEPT !.position = <<0, 0, 0>>]

\* self.sonos.volume = v
DevSetVolume(d, v) == [d EXCEPT !.volume = v]

(***************************************************************************)
(* Characters: the position string of get_current_track_info.              *)
(***************************************************************************)
\* The characters of a position, in code point order.
CharOrder == <<"0", "1", "2", "3", "4", "5", "6", "7", "8", "9", ":">>

Ord(c) == CHOOSE i \in DOMAIN CharOrder : CharOrder[i] = c

Digit(n) == CharOrder[n + 1]

RECURSIVE Decimal(_)
Decimal(n) == IF n < 10 THEN <<Digit(n)>> ELSE Append(Decimal(n \div 10), Digit(n % 10))

TwoDigits(n) == <<Digit(n \div 10), Digit(n % 10)>>

\* track_info['position']: the device's RelTime, H:MM:SS.
RelTime(t) == Decimal(t[1]) \o <<":">> \o TwoDigits(t[2]) \o <<":">> \o TwoDigits(t[3])

\* s[-n:]
LastChars(s, n) == IF Len(s) <= n THEN s ELSE SubSeq(s, Len(s) - n + 1, Len(s))

\* Python's < on str: by code point, a proper prefix first.
RECURSIVE StrLess(_, _)
StrLess(a, b) ==
    IF a = <<>> THEN b # <<>>
    ELSE IF b = <<>> THEN FALSE
    ELSE IF Head(a) # Head(b) THEN Ord(Head(a)) < Ord(Head(b))
    ELSE StrLess(Tail(a), Tail(b))

\* position = f"0{track_info['position']}"[-8:]
PaddedPosition(reltime) == LastChars(<<"0">> \o reltime, 8)

\* AtBeginning with <= for <.
AtBeginningInclusive(position) ==
    position = <<"0", "0", ":", "0", "0", ":", "0", "4">>
    \/ StrLess(position, <<"0", "0", ":", "0", "0", ":", "0", "4">>)

\* position < "00:00:04"
AtBeginning(position) == StrLess(position, <<"0", "0", ":", "0", "0", ":", "0", "4">>)

Min(a, b) == IF a < b THEN a ELSE b
Max(a, b) == IF a > b THEN a ELSE b

\* ClampVolume without the max(0, ...).
ClampVolumeNoFloor(v, change) == Min(100, v + change)

\* min(100, max(0, self.sonos.volume + change))
ClampVolume(v, change) == Min(100, Max(0, v + change))

(***************************************************************************)
(* Discovery (find_sonos).                                                 *)
(***************************************************************************)
\* self.sonos, *_ = soco.discover() with a device on the network.
find_sonos_found ==
    /\ find_pc = "pending"
    /\ sonos' = "device"
    /\ find_pc' = "found"
    /\ UNCHANGED shellVars
    /\ UNCHANGED <<libVars, timer, dev, workers, app, pollVars>>

\* soco.discover() returns None when no device answers: the unpacking raises
\* TypeError in the worker, which ends the application.
find_sonos_none ==
    /\ find_pc = "pending"
    /\ find_pc' = "failed"
    /\ app' = "crashed"
    /\ UNCHANGED shellVars
    /\ UNCHANGED <<libVars, sonos, timer, dev, workers, pollVars>>

\* self.call_from_thread(create_timer): the main loop creates the poll timer.
create_timer ==
    /\ find_pc = "found"
    /\ app = "running"
    /\ timer' = "active"
    /\ find_pc' = "timer"
    /\ UNCHANGED shellVars
    /\ UNCHANGED <<libVars, sonos, dev, workers, app, pollVars>>

(***************************************************************************)
(* The workers of group "playback_control".                                *)
(***************************************************************************)
Finished(wk) == wk.pc \in {"done", "error"}

NewWorker(kind, key, change) ==
    [kind |-> kind, key |-> key, change |-> change, pc |-> "start", i |-> 0,
     cancelled |-> FALSE, early |-> sonos = "None", sawNone |-> FALSE,
     ncalls |-> 0, last |-> "None", v |-> 0, reltime |-> <<>>, position |-> <<>>]

\* WorkerManager.cancel_group on the workers still running: a thread worker
\* is flagged cancelled, and its thread runs on (no worker of the source
\* reads is_cancelled).
Superseded(ws) ==
    [w \in DOMAIN ws |-> IF Finished(ws[w]) THEN ws[w] ELSE [ws[w] EXCEPT !.cancelled = TRUE]]

\* @work(thread=True, group="playback_control", exclusive=True): the call on
\* the main loop cancels the group's workers and starts the new one's thread.
\* A run submits at most limit commands.
run_worker(limit, kind, key, change) ==
    /\ app = "running"
    /\ Len(workers) < limit
    /\ workers' = Append(Superseded(workers), NewWorker(kind, key, change))
    /\ UNCHANGED shellVars
    /\ UNCHANGED <<libVars, sonos, find_pc, timer, dev, app, pollVars>>

\* @on(DataTable.RowSelected): a row of the table is selected.
select_album(limit) ==
    \E key \in Range(rows) : run_worker(limit, "add_album_to_queue_and_play", key, 0)

\* The bindings z, x, c, v, b, + and -.
binding_player_prev(limit) == run_worker(limit, "action_player_prev", <<>>, 0)
binding_player_play(limit) == run_worker(limit, "action_player_play", <<>>, 0)
binding_player_pause(limit) == run_worker(limit, "action_player_pause", <<>>, 0)
binding_player_stop(limit) == run_worker(limit, "action_player_stop", <<>>, 0)
binding_player_next(limit) == run_worker(limit, "action_player_next", <<>>, 0)
binding_player_adjust_volume(limit) ==
    \E change \in {5, -5} : run_worker(limit, "action_player_adjust_volume", <<>>, change)

At(w, kind, pc) == workers[w].kind = kind /\ workers[w].pc = pc

\* NoDevice with the command kept for later instead of dropped.
NoDeviceRetry(w) ==
    /\ sonos = "None"
    /\ workers' = [workers EXCEPT ![w].sawNone = TRUE]
    /\ UNCHANGED <<dev, app>>

\* self.sonos is None: the attribute access raises AttributeError, which
\* every worker of the group catches, and the worker returns.
NoDevice(w) ==
    /\ sonos = "None"
    /\ workers' = [workers EXCEPT ![w].pc = "done", ![w].sawNone = TRUE]
    /\ UNCHANGED <<dev, app>>

\* The device carries out the call; the worker goes on as wk.
Accepted(w, call, d, wk) ==
    /\ sonos # "None"
    /\ dev' = d
    /\ workers' = [workers EXCEPT ![w] = [wk EXCEPT !.ncalls = @ + 1, !.last = call]]
    /\ app' = app

\* A worker's function raised: Worker._run ends the application
\* (exit_on_error), unless the worker was cancelled, whose outcome is dropped.
WorkerError(w) == IF workers[w].cancelled THEN app ELSE "crashed"

\* The device rejects the call (SoCoUPnPException): the worker returns when
\* the call is inside a try that catches it, and ends with the error when
\* it is not.
Rejected(w, call, caught) ==
    /\ sonos # "None"
    /\ dev' = dev
    /\ IF caught
       THEN /\ workers' = [workers EXCEPT ![w].pc = "done", ![w].ncalls = @ + 1,
                                           ![w].last = call]
            /\ app' = app
       ELSE /\ workers' = [workers EXCEPT ![w].pc = "error", ![w].ncalls = @ + 1,
                                           ![w].last = call]
            /\ app' = WorkerError(w)

\* self.music_index[artist, album] on the defaultdict: a missing key is added.
IndexGet(idx, key) ==
    IF key \in DOMAIN idx THEN idx
    ELSE [k \in DOMAIN idx \cup {key} |-> IF k = key THEN <<>> ELSE idx[k]]

\* add_album_to_queue_and_play: self.sonos.clear_queue(), then the lookup of
\* the album's locations.
add_album_clear_queue(w) ==
    /\ At(w, "add_album_to_queue_and_play", "start")
    /\ \/ NoDevice(w) /\ UNCHANGED music_index
       \/ LET idx == IndexGet(music_index, workers[w].key)
          IN  /\ Accepted(w, "clear_queue", DevClearQueue(dev),
                          [workers[w] EXCEPT !.i = 1,
                               !.pc = IF idx[workers[w].key] = <<>> THEN "play" ELSE "add"])
              /\ music_index' = idx
       \/ Rejected(w, "clear_queue", FALSE) /\ UNCHANGED music_index
    /\ UNCHANGED shellVars
    /\ UNCHANGED <<records, load_pc, loading, rows, sonos, find_pc, timer, pollVars>>

\* add_album_to_queue_and_play: one self.sonos.add_uri_to_queue(uri) of the loop.
add_album_add_uri(w) ==
    /\ At(w, "add_album_to_queue_and_play", "add")
    /\ LET locations == music_index[workers[w].key]
           i == workers[w].i
       IN  \/ Accepted(w, "add_uri_to_queue", DevAddUriToQueue(dev, Uri(locations[i])),
                       [workers[w] EXCEPT !.i = i + 1,
                            !.pc = IF i = Len(locations) THEN "play" ELSE "add"])
           \/ Rejected(w, "add_uri_to_queue", FALSE)
    /\ UNCHANGED shellVars
    /\ UNCHANGED <<libVars, sonos, find_pc, timer, pollVars>>

\* add_album_to_queue_and_play: self.sonos.play()
add_album_play(w) ==
    /\ At(w, "add_album_to_queue_and_play", "play")
    /\ \/ Accepted(w, "play", DevPlay(dev), [workers[w] EXCEPT !.pc = "done"])
       \/ Rejected(w, "play", FALSE)
    /\ UNCHANGED shellVars
    /\ UNCHANGED <<libVars, sonos, find_pc, timer, pollVars>>

\* action_player_prev: track_info = self.sonos.get_current_track_info() and
\* the position string made of it.
action_player_prev_info(w) ==
    /\ At(w, "action_player_prev", "start")
    /\ \/ NoDevice(w)
       \/ Accepted(w, "get_current_track_info", dev,
                   [workers[w] EXCEPT !.pc = "transport",
                        !.reltime = RelTime(dev.position),
                        !.position = PaddedPosition(RelTime(dev.position))])
       \/ Rejected(w, "get_current_track_info", FALSE)
    /\ UNCHANGED shellVars
    /\ UNCHANGED <<libVars, sonos, find_pc, timer, pollVars>>

\* action_player_prev: self.sonos.previous() at the beginning of the track,
\* else self.sonos.seek("00:00:00").
action_player_prev_transport(w) ==
    /\ At(w, "action_player_prev", "transport")
    /\ IF AtBeginning(workers[w].position)
       THEN \/ Accepted(w, "previous", DevPrevious(dev), [workers[w] EXCEPT !.pc = "done"])
            \/ Rejected(w, "previous", TRUE)
       ELSE \/ Accepted(w, "seek", DevSeek(dev), [workers[w] EXCEPT !.pc = "done"])
            \/ Rejected(w, "seek", TRUE)
    /\ UNCHANGED shellVars
    /\ UNCHANGED <<libVars, sonos, find_pc, timer, pollVars>>

action_player_play(w) ==
    /\ At(w, "action_player_play", "start")
    /\ \/ NoDevice(w)
       \/ Accepted(w, "play", DevPlay(dev), [workers[w] EXCEPT !.pc = "done"])
       \/ Rejected(w, "play", TRUE)
    /\ UNCHANGED shellVars
    /\ UNCHANGED <<libVars, sonos, find_pc, timer, pollVars>>

action_player_pause(w) ==
    /\ At(w, "action_player_pause", "start")
    /\ \/ NoDevice(w)
       \/ Accepted(w, "pause", DevPause(dev), [workers[w] EXCEPT !.pc = "done"])
       \/ Rejected(w, "pause", TRUE)
    /\ UNCHANGED shellVars
    /\ UNCHANGED <<libVars, sonos, find_pc, timer, pollVars>>

\* action_player_stop catches AttributeError only.
action_player_stop(w) ==
    /\ At(w, "action_player_stop", "start")
    /\ \/ NoDevice(w)
       \/ Accepted(w, "stop", DevStop(dev), [workers[w] EXCEPT !.pc = "done"])
       \/ Rejected(w, "stop", FALSE)
    /\ UNCHANGED shellVars
    /\ UNCHANGED <<libVars, sonos, find_pc, timer, pollVars>>

action_player_next(w) ==
    /\ At(w, "action_player_next", "start")
    /\ \/ NoDevice(w)
       \/ Accepted(w, "next", DevNext(dev), [workers[w] EXCEPT !.pc = "done"])
       \/ Rejected(w, "next", TRUE)
    /\ UNCHANGED shellVars
    /\ UNCHANGED <<libVars, sonos, find_pc, timer, pollVars>>

\* action_player_adjust_volume: the read of self.sonos.volume.
action_player_adjust_volume_get(w) ==
    /\ At(w, "action_player_adjust_volume", "start")
    /\ \/ NoDevice(w)
       \/ Accepted(w, "get_volume", dev, [workers[w] EXCEPT !.pc = "set", !.v = dev.volume])
       \/ Rejected(w, "get_volume", FALSE)
    /\ UNCHANGED shellVars
    /\ UNCHANGED <<libVars, sonos, find_pc, timer, pollVars>>

\* action_player_adjust_volume: the assignment to self.sonos.volume.
action_player_adjust_volume_set(w) ==
    /\ At(w, "action_player_adjust_volume", "set")
    /\ \/ Accepted(w, "set_volume",
                   DevSetVolume(dev, ClampVolume(workers[w].v, workers[w].change)),
                   [workers[w] EXCEPT !.pc = "done"])
       \/ Rejected(w, "set_volume", FALSE)
    /\ UNCHANGED shellVars
    /\ UNCHANGED <<libVars, sonos, find_pc, timer, pollVars>>

(***************************************************************************)
(* The application: library loading, discovery and the commands.           *)
(***************************************************************************)
\* A catalog of two albums under the music root.
HomeCatalog ==
    << <<"Ann", "X", 2, <<"file://", user_music_dir, "/Ann/X/2.flac">> >>,
       <<"Bob", "Y", 1, <<"file://", user_music_dir, "/Bob/Y/1.flac">> >>,
       <<"Ann", "X", 1, <<"file://", user_music_dir, "/Ann/X/1.flac">> >> >>

\* track_info["metadata"]: None, "", a document that does not parse, or a
\* DIDL-Lite document whose item has or lacks dc:title, upnp:album, dc:creator.
Metadata(kind, title, album, creator) ==
    [kind |-> kind, title |-> title, album |-> album, creator |-> creator]

NoMetadata == Metadata("None", "None", "None", "None")

IdleTick == [pc |-> "idle", document |-> NoMetadata, display |-> <<>>]

\* What the device can be doing when the application finds it: idle, playing
\* its own queue, or playing another source (a radio stream, a line-in).
DeviceStates ==
    { [queue |-> <<>>, transport |-> "STOPPED", source |-> "queue", track |-> 0,
       volume |-> 50, position |-> <<0, 0, 0>>, metadata |-> NoMetadata],
      [queue |-> <<Uri(<<"/old/1.flac">>), Uri(<<"/old/2.flac">>)>>,
       transport |-> "PLAYING", source |-> "queue", track |-> 1,
       volume |-> 50, position |-> <<0, 0, 10>>, metadata |-> NoMetadata],
      [queue |-> <<Uri(<<"/old/1.flac">>)>>,
       transport |-> "PLAYING", source |-> "other", track |-> 0,
       volume |-> 50, position |-> <<0, 0, 2>>, metadata |-> NoMetadata] }

\* ControllerApp.__init__, compose and on_mount.
Constructed ==
    /\ music_index = EmptyIndex
    /\ load_pc = "pending"
    /\ loading = TRUE
    /\ rows = <<>>
    /\ sonos = "None"
    /\ find_pc = "pending"
    /\ timer = "None"
    /\ workers = <<>>
    /\ app = "running"
    /\ ticks = [t \in 1..MaxTicks |-> IdleTick]
    /\ renderable = <<"No music selected">>
    /\ mutations = {}
    /\ screen = "main"
    /\ http_pc = "pending"
    /\ bind_errno = 0
    /\ return_code = 0
    /\ return_value = <<>>
    /\ unmount_pc = "None"
    /\ unmount_calls = <<>>
    /\ main_pc = "running"
    /\ stderr = <<>>
    /\ status = 0

Init ==
    /\ Constructed
    /\ records = HomeCatalog
    /\ dev \in DeviceStates

Startup ==
    \/ load_music_library
    \/ find_sonos_found
    \/ find_sonos_none
    \/ create_timer

AlbumStep ==
    \/ \E w \in DOMAIN workers : add_album_clear_queue(w)
    \/ \E w \in DOMAIN workers : add_album_add_uri(w)
    \/ \E w \in DOMAIN workers : add_album_play(w)

PrevStep ==
    \/ \E w \in DOMAIN workers : action_player_prev_info(w)
    \/ \E w \in DOMAIN workers : action_player_prev_transport(w)

TransportStep ==
    \/ \E w \in DOMAIN workers : action_player_play(w)
    \/ \E w \in DOMAIN workers : action_player_pause(w)
    \/ \E w \in DOMAIN workers : action_player_stop(w)
    \/ \E w \in DOMAIN workers : action_player_next(w)

VolumeStep ==
    \/ \E w \in DOMAIN workers : action_player_adjust_volume_get(w)
    \/ \E w \in DOMAIN workers : action_player_adjust_volume_set(w)

\* The application with every command of the group.
Next ==
    \/ Startup
    \/ select_album(MaxCommands)
    \/ binding_player_prev(MaxCommands)
    \/ binding_player_play(MaxCommands)
    \/ binding_player_pause(MaxCommands)
    \/ binding_player_stop(MaxCommands)
    \/ binding_player_next(MaxCommands)
    \/ binding_player_adjust_volume(MaxCommands)
    \/ AlbumStep
    \/ PrevStep
    \/ TransportStep
    \/ VolumeStep

Spec == Init /\ [][Next]_vars

\* The application with album selections only.
NextAlbums ==
    \/ Startup
    \/ select_album(MaxSelections)
    \/ AlbumStep

SpecAlbums == Init /\ [][NextAlbums]_vars

(***************************************************************************)
(* Claims about the commands.                                              *)
(***************************************************************************)
\* A worker between its first device call and its last.
MidSequence(wk) == wk.ncalls > 0 /\ ~Finished(wk)

IsAlbum(wk) == wk.kind = "add_album_to_queue_and_play"

\* The queue entries of an album: one URI per path of the index entry.
AlbumUris(key) == [i \in 1..Len(music_index[key]) |-> Uri(music_index[key][i])]

\* C1: at every moment at most one command of the group is in the middle of
\* its device calls, so the calls of two commands never interleave.
C1_OneCommandAtATime ==
    Cardinality({w \in DOMAIN workers : MidSequence(workers[w])}) <= 1

\* C2: when album B is selected while the worker of album A is still
\* executing, then once both workers have finished, B's having run to its
\* end on the device, the queue holds exactly the URIs of album B.
C2_LastAlbumWins ==
    \A b \in DOMAIN workers :
        (/\ b = Len(workers) /\ b > 1
         /\ IsAlbum(workers[b - 1]) /\ IsAlbum(workers[b])
         /\ workers[b - 1].key # workers[b].key
         /\ workers[b - 1].cancelled /\ Finished(workers[b - 1])
         /\ workers[b].pc = "done" /\ ~workers[b].sawNone)
        => dev.queue = AlbumUris(workers[b].key)

\* The last command issued, issued when every earlier one had finished.
Alone(w) == w = Len(workers) /\ \A a \in 1..(w - 1) : ~workers[a].cancelled

\* C3: an album command that ran to completion on the device with no other
\* command in flight leaves the queue equal to the album's URIs and the
\* device playing entry 0 of its queue.
C3_PlaysAlbumFromStart ==
    \A w \in DOMAIN workers :
        (IsAlbum(workers[w]) /\ Alone(w) /\ workers[w].pc = "done" /\ ~workers[w].sawNone)
        => /\ dev.queue = AlbumUris(workers[w].key)
           /\ dev.transport = "PLAYING"
           /\ dev.source = "queue"
           /\ dev.track = 0

C5_RejectionsSwallowed == \A w \in DOMAIN workers : workers[w].pc # "error"

(***************************************************************************)
(* The poll timer and update_now_playing.                                  *)
(***************************************************************************)
\* What the device reports as the metadata of its current track.
Metadatas ==
    { NoMetadata,
      Metadata("empty", "None", "None", "None"),
      Metadata("malformed", "None", "None", "None"),
      Metadata("didl", "Song", "LP", "Ann"),
      Metadata("didl", "Song", "None", "None"),
      Metadata("didl", "Song", "None", "Ann"),
      Metadata("didl", "None", "LP", "Ann") }

\* The device moves to another track, or to none.
device_track_change ==
    /\ \E m \in Metadatas \ {dev.metadata} : dev' = [dev EXCEPT !.metadata = m]
    /\ UNCHANGED shellVars
    /\ UNCHANGED <<libVars, sonos, find_pc, timer, workers, app, pollVars>>

FreeTick(t) == ticks[t].pc \in {"idle", "done"}

\* self.set_interval(1, self.update_now_playing): every second the timer
\* starts an update_now_playing worker, whether or not the last has ended.
timer_tick ==
    /\ timer = "active"
    /\ app = "running"
    /\ \E t \in DOMAIN ticks :
        /\ FreeTick(t)
        /\ \A u \in DOMAIN ticks : u < t => ~FreeTick(u)
        /\ ticks' = [ticks EXCEPT ![t] = [IdleTick EXCEPT !.pc = "start"]]
    /\ UNCHANGED shellVars
    /\ UNCHANGED <<libVars, sonos, find_pc, timer, dev, workers, app, renderable>>

\* track_info = self.sonos.get_current_track_info(), which the device may
\* reject; document = track_info.get("metadata")
tick_read(t) ==
    /\ ticks[t].pc = "start"
    /\ \/ /\ ticks' = [ticks EXCEPT ![t].pc = "parse", ![t].document = dev.metadata]
          /\ app' = app
       \/ /\ ticks' = [ticks EXCEPT ![t].pc = "error"]
          /\ app' = "crashed"
    /\ UNCHANGED shellVars
    /\ UNCHANGED <<libVars, sonos, find_pc, timer, dev, workers, renderable>>

\* ParseError never raised: a document that does not parse yields no elements.
ParseErrorNever(document) == FALSE

\* ElementTree.fromstring(document) raises ParseError
ParseError(document) == document.kind = "malformed"

\* parse_sonos_track_metadata: the elements found, None for one not found.
parse_sonos_track_metadata(document) ==
    <<document.title, document.album, document.creator>>

\* display = f"[bold]{title.text}[/bold]", with f"\n{artist.text} <bullet> {album.text}"
\* when album and artist were found.
Display(title, album, artist) ==
    <<"[bold]", title, "[/bold]">>
    \o (IF album # "None" /\ artist # "None" THEN <<"\n", artist, " <bullet> ", album>> ELSE <<>>)

\* update_now_playing from `if not document` to the comparison with
\* now_playing.renderable: the worker returns, raises (title is None), or
\* goes on to push the display.
tick_compute(t) ==
    /\ ticks[t].pc = "parse"
    /\ LET document == ticks[t].document
           parsed == parse_sonos_track_metadata(document)
           display == Display(parsed[1], parsed[2], parsed[3])
       IN  IF document.kind \in {"None", "empty"}
           THEN ticks' = [ticks EXCEPT ![t].pc = "done"] /\ app' = app
           ELSE IF ParseError(document)
           THEN ticks' = [ticks EXCEPT ![t].pc = "done"] /\ app' = app
           ELSE IF parsed[1] = "None"
           THEN ticks' = [ticks EXCEPT ![t].pc = "error"] /\ app' = "crashed"
           ELSE IF display # renderable
           THEN ticks' = [ticks EXCEPT ![t].pc = "update", ![t].display = display] /\ app' = app
           ELSE ticks' = [ticks EXCEPT ![t].pc = "done"] /\ app' = app
    /\ UNCHANGED shellVars
    /\ UNCHANGED <<libVars, sonos, find_pc, timer, dev, workers, renderable>>

\* self.call_from_thread(now_playing.update, display): the main loop updates
\* the widget.
tick_update(t) ==
    /\ ticks[t].pc = "update"
    /\ app = "running"
    /\ renderable' = ticks[t].display
    /\ mutations' = mutations \cup {<<"now-playing", "main">>}
    /\ ticks' = [ticks EXCEPT ![t].pc = "done", ![t].display = <<>>]
    /\ UNCHANGED <<screen, httpVars, exitVars>>
    /\ UNCHANGED <<libVars, sonos, find_pc, timer, dev, workers, app>>

NextPoll ==
    \/ find_sonos_found
    \/ create_timer
    \/ device_track_change
    \/ timer_tick
    \/ \E t \in DOMAIN ticks : tick_read(t)
    \/ \E t \in DOMAIN ticks : tick_compute(t)
    \/ \E t \in DOMAIN ticks : tick_update(t)

InitPoll ==
    /\ Constructed
    /\ records = HomeCatalog
    /\ dev \in {d \in DeviceStates : d.source = "queue"}

SpecPoll == InitPoll /\ [][NextPoll]_vars

\* An update is pushed to the widget.
Pushed(t) == ticks[t].pc = "update" /\ ticks'[t].pc = "done"

\* C8: every update pushed to the now-playing widget differs from the
\* display the widget holds, the last one pushed, also when ticks overlap.
C8_NoRedundantUpdate ==
    [][\A t \in DOMAIN ticks : Pushed(t) => renderable' # renderable]_vars

Unusable(document) == document.kind \in {"None", "empty", "malformed"}

\* C9: a tick whose metadata is None, empty or does not parse ends without
\* an error and pushes nothing: the display and the application are as before.
C9_UnusableMetadataNoOp ==
    [][\A t \in DOMAIN ticks :
        (ticks[t].pc = "parse" /\ ticks'[t] # ticks[t] /\ Unusable(ticks[t].document))
        => (ticks'[t].pc = "done" /\ renderable' = renderable /\ app' = app)]_vars

\* A tick has ended on a document that does not parse while the widget
\* shows an earlier track.
C9_Witness ==
    \E t \in DOMAIN ticks :
        /\ ticks[t].pc = "done"
        /\ ticks[t].document.kind = "malformed"
        /\ renderable # <<"No music selected">>
        /\ app = "running"

(***************************************************************************)
(* action_player_prev over the positions a device reports.                 *)
(***************************************************************************)
Hours == {0, 1, 10, 99, 100}
Minutes == {0, 1, 59}
Seconds == {0, 2, 3, 4, 5, 10, 59}

PlayingDevice == CHOOSE d \in DeviceStates : d.source = "queue" /\ d.transport = "PLAYING"

InitPrev ==
    /\ Constructed
    /\ records = HomeCatalog
    /\ \E t \in Hours \X Minutes \X Seconds : dev = [PlayingDevice EXCEPT !.position = t]

NextPrev ==
    \/ find_sonos_found
    \/ binding_player_prev(MaxPresses)
    \/ PrevStep

SpecPrev == InitPrev /\ [][NextPrev]_vars

RECURSIVE Number(_)
Number(digits) ==
    IF digits = <<>> THEN 0
    ELSE 10 * Number(SubSeq(digits, 1, Len(digits) - 1)) + (Ord(digits[Len(digits)]) - 1)

\* The hours and the seconds since the start of the track that H:MM:SS states.
ClockHours(reltime) == Number(SubSeq(reltime, 1, Len(reltime) - 6))

ClockSeconds(reltime) ==
    3600 * ClockHours(reltime)
    + 60 * Number(SubSeq(reltime, Len(reltime) - 4, Len(reltime) - 3))
    + Number(SubSeq(reltime, Len(reltime) - 1, Len(reltime)))

IsPrev(wk) == wk.kind = "action_player_prev"

\* The worker read the position and, unless the device rejected the read,
\* went on to its transport call.
PrevDone(wk) == IsPrev(wk) /\ wk.pc = "done" /\ ~wk.sawNone

InitVolume ==
    /\ Constructed
    /\ records = HomeCatalog
    /\ \E v \in 0..100 : dev = [PlayingDevice EXCEPT !.volume = v]

NextVolume ==
    \/ find_sonos_found
    \/ binding_player_adjust_volume(MaxPresses)
    \/ VolumeStep

SpecVolume == InitVolume /\ [][NextVolume]_vars

\* v + change, kept within 0 and 100.
Clamped(v, change) ==
    IF v + change > 100 THEN 100 ELSE IF v + change < 0 THEN 0 ELSE v + change

\* Worker w writes the volume.
WritesVolume(w) ==
    /\ workers[w].kind = "action_player_adjust_volume"
    /\ workers[w].pc = "set"
    /\ workers'[w].pc = "done"

\* C7: adjust_volume writes the volume it read plus the change, clamped to
\* 0..100, and the volume of the device stays within 0..100.
C7_VolumeClamped ==
    /\ [](dev.volume \in 0..100)
    /\ [][\A w \in DOMAIN workers :
            WritesVolume(w) => dev'.volume = Clamped(workers[w].v, workers[w].change)]_vars

\* +5 from 98 has yielded 100.
C7_Witness ==
    \E w \in DOMAIN workers :
        /\ workers[w].kind = "action_player_adjust_volume"
        /\ workers[w].pc = "done" /\ workers[w].last = "set_volume"
        /\ workers[w].v = 98 /\ workers[w].change = 5
        /\ dev.volume = 100

(***************************************************************************)
(* load_music_library over the catalogs.                                   *)
(***************************************************************************)
RECURSIVE SeqsUpTo(_, _)
SeqsUpTo(S, n) ==
    IF n = 0 THEN {<<>>}
    ELSE LET shorter == SeqsUpTo(S, n - 1)
         IN  shorter \cup {Append(q, x) : q \in shorter, x \in S}

InitIndex ==
    /\ Constructed
    /\ records \in SeqsUpTo(CatalogRecords, MaxRecords)
    /\ dev = PlayingDevice

NextIndex == load_music_library

SpecIndex == InitIndex /\ [][NextIndex]_vars

KeyOf(r) == <<r[1], r[2]>>

\* The records of an album, as positions in the catalog's answer.
RecordsOf(key) == {i \in DOMAIN records : KeyOf(records[i]) = key}

\* The paths of an album are those of its records in an order of ascending
\* track number.
AscendingTracks(key) ==
    LET n == Len(music_index[key])
    IN  /\ n = Cardinality(RecordsOf(key))
        /\ \E f \in [1..n -> RecordsOf(key)] :
            /\ \A i, j \in 1..n : i # j => f[i] # f[j]
            /\ \A i, j \in 1..n : i < j => records[f[i]][3] <= records[f[j]][3]
            /\ \A i \in 1..n :
                music_index[key][i]
                    = removeprefix(records[f[i]][4], <<"file://", user_music_dir>>)

\* C10: once load_music_library has run through, the keys of the index are
\* the distinct (artist, album) pairs of the records, and each key holds one
\* path per record of the album, in ascending track number.
C10_IndexByAlbumInTrackOrder ==
    load_pc = "done"
    => /\ DOMAIN music_index = {KeyOf(records[i]) : i \in DOMAIN records}
       /\ \A key \in DOMAIN music_index : AscendingTracks(key)

\* An index was built of a catalog that lists track 2 of an album before
\* track 1 and holds another album too.
C10_Witness ==
    /\ load_pc = "done"
    /\ Cardinality(DOMAIN music_index) = 2
    /\ \E i, j \in DOMAIN records :
        i < j /\ KeyOf(records[i]) = KeyOf(records[j]) /\ records[i][3] > records[j][3]

\* The URL lies under the music root: it begins with file://{user_music_dir}.
InRoot(url) == startswith(url, <<"file://", user_music_dir>>)

\* C11: a URL under the music root is indexed with the prefix
\* file://{user_music_dir} removed once; a URL outside the root makes
\* load_music_library fail and is never stored in the index.
C11_OutsideRootFailsFast ==
    /\ load_pc = "done" => \A i \in DOMAIN records : InRoot(records[i][4])
    /\ \A key \in DOMAIN music_index : \A i \in DOMAIN music_index[key] :
        \E j \in DOMAIN records :
            /\ KeyOf(records[j]) = key
            /\ InRoot(records[j][4])
            /\ music_index[key][i] = SubSeq(records[j][4], 3, Len(records[j][4]))

(***************************************************************************)
(* Album selection over the catalogs.                                      *)
(***************************************************************************)
IdleDevice == CHOOSE d \in DeviceStates : d.queue = <<>>

InitCatalog ==
    /\ Constructed
    /\ records \in SeqsUpTo(CatalogRecords, MaxCatalog)
    /\ dev = IdleDevice

SpecCatalog == InitCatalog /\ [][NextAlbums]_vars

\* The path of a URL under the music root, relative to the root.
RelativePath(url) == SubSeq(url, 3, Len(url))

\* C12: every URI the device is handed by add_uri_to_queue is
\* http://{http_host}:{http_port}{p} for the path p, relative to the music
\* root, of a catalog entry under the root.
C12_DeviceGetsHttpUris ==
    \A i \in DOMAIN dev.queue :
        \E j \in DOMAIN records :
            /\ InRoot(records[j][4])
            /\ dev.queue[i] = Uri(RelativePath(records[j][4]))

(***************************************************************************)
(* The media server (spawn_http), quitting, on_unmount and main.           *)
(***************************************************************************)
\* errno of "address already in use"
EADDRINUSE == 98

\* The errno of a failed bind: EADDRINUSE, EACCES or EADDRNOTAVAIL.
Errnos == {EADDRINUSE, 13, 99}

\* str(err) of an OSError
StrOSError(errno) == <<"[Errno ", ToString(errno), "]">>

\* BindFailureResult with a message that does not name the port.
BindFailureResultNoPort(errno) ==
    IF errno = EADDRINUSE THEN <<"could not bind (already in use)">> ELSE StrOSError(errno)

\* The result spawn_http hands to self.exit for an OSError of site.start().
BindFailureResult(errno) ==
    IF errno = EADDRINUSE
    THEN <<"could not bind to port ", ToString(http_port), " (already in use)">>
    ELSE StrOSError(errno)

\* spawn_http: site.start() binds host and port.
spawn_http_bound ==
    /\ http_pc = "pending"
    /\ app = "running"
    /\ http_pc' = "bound"
    /\ UNCHANGED <<libVars, sonos, find_pc, timer, dev, workers, app, pollVars,
                   mutations, screen, bind_errno, return_code, return_value, exitVars>>

\* spawn_http: site.start() raises OSError and the worker calls
\* self.exit(..., return_code=1).
spawn_http_failed ==
    /\ http_pc = "pending"
    /\ app = "running"
    /\ \E errno \in Errnos :
        /\ bind_errno' = errno
        /\ return_value' = BindFailureResult(errno)
    /\ http_pc' = "failed"
    /\ return_code' = 1
    /\ app' = "exited"
    /\ UNCHANGED <<libVars, sonos, find_pc, timer, dev, workers, pollVars,
                   mutations, screen, exitVars>>

\* Binding("ctrl+q", "quit"): App.action_quit calls self.exit().
action_quit ==
    /\ app = "running"
    /\ app' = "exited"
    /\ return_code' = 0
    /\ return_value' = <<>>
    /\ UNCHANGED <<libVars, sonos, find_pc, timer, dev, workers, pollVars,
                   mutations, screen, http_pc, bind_errno, exitVars>>

\* on_unmount, run by the main loop once the application is closing:
\* self.sonos.stop(). AttributeError (no device) is caught and skips both
\* device calls; a rejection by the device leaves on_unmount.
on_unmount_stop ==
    /\ app # "running"
    /\ unmount_pc = "None"
    /\ \/ /\ sonos = "None"
          /\ unmount_pc' = "cleanup"
          /\ UNCHANGED <<dev, unmount_calls>>
       \/ /\ sonos # "None"
          /\ dev' = DevStop(dev)
          /\ unmount_calls' = Append(unmount_calls, "stop")
          /\ unmount_pc' = "clear"
       \/ /\ sonos # "None"
          /\ dev' = dev
          /\ unmount_calls' = Append(unmount_calls, "stop")
          /\ unmount_pc' = "error"
    /\ UNCHANGED <<libVars, sonos, find_pc, timer, workers, app, pollVars,
                   mutations, screen, httpVars, main_pc, stderr, status>>

\* on_unmount: self.sonos.clear_queue()
on_unmount_clear_queue ==
    /\ unmount_pc = "clear"
    /\ unmount_calls' = Append(unmount_calls, "clear_queue")
    /\ \/ dev' = DevClearQueue(dev) /\ unmount_pc' = "cleanup"
       \/ dev' = dev /\ unmount_pc' = "error"
    /\ UNCHANGED <<libVars, sonos, find_pc, timer, workers, app, pollVars,
                   mutations, screen, httpVars, main_pc, stderr, status>>

\* on_unmount: await self.http_runner.cleanup()
on_unmount_cleanup ==
    /\ unmount_pc = "cleanup"
    /\ http_pc' = IF http_pc = "bound" THEN "closed" ELSE http_pc
    /\ unmount_pc' = "done"
    /\ UNCHANGED <<libVars, sonos, find_pc, timer, dev, workers, app, pollVars,
                   mutations, screen, bind_errno, return_code, return_value,
                   unmount_calls, main_pc, stderr, status>>

on_unmount == on_unmount_stop \/ on_unmount_clear_queue \/ on_unmount_cleanup

\* main: app.run() has returned; its result, when not None, is printed to
\* stderr, and app.return_code (1 after an unhandled exception) is returned.
main ==
    /\ app # "running"
    /\ unmount_pc \in {"done", "error"}
    /\ main_pc = "running"
    /\ main_pc' = "returned"
    /\ stderr' = IF return_value # <<>> THEN <<"songbird: ">> \o return_value ELSE <<>>
    /\ status' = IF app = "crashed" \/ unmount_pc = "error" THEN 1 ELSE return_code
    /\ UNCHANGED <<libVars, sonos, find_pc, timer, dev, workers, app, pollVars,
                   mutations, screen, httpVars, unmount_pc, unmount_calls>>

NextHttp ==
    \/ Startup
    \/ spawn_http_bound
    \/ spawn_http_failed
    \/ action_quit
    \/ on_unmount_stop
    \/ on_unmount_clear_queue
    \/ on_unmount_cleanup
    \/ main

\* Once the application is closing the main loop runs on_unmount, every
\* device call of which returns or raises, and app.run() returns to main.
SpecHttp == Init /\ [][NextHttp]_vars /\ WF_vars(on_unmount) /\ WF_vars(main)

\* C13: a failed bind of the media server ends the application with a
\* non-zero return code and a message, which names the port when the port
\* is in use and carries the error otherwise; main prints the message and
\* returns the non-zero status.
C13_BindFailureIsFatal ==
    /\ [](http_pc = "failed"
          => /\ app # "running"
             /\ return_code # 0
             /\ bind_errno = EADDRINUSE => ToString(http_port) \in Range(return_value)
             /\ bind_errno # EADDRINUSE => return_value = StrOSError(bind_errno))
    /\ []((http_pc = "failed" /\ main_pc = "returned")
          => /\ status # 0
             /\ return_value # <<>>
             /\ stderr = <<"songbird: ">> \o return_value)
    /\ (http_pc = "failed") ~> (main_pc = "returned")

\* main has returned 1 after printing that port 8080 is in use.
C13_Witness ==
    /\ main_pc = "returned"
    /\ http_pc = "failed"
    /\ bind_errno = EADDRINUSE
    /\ status = 1
    /\ stderr = <<"songbird: ", "could not bind to port ", "8080", " (already in use)">>

(***************************************************************************)
(* Claims about discovery, the display and shutdown.                       *)
(***************************************************************************)
\* C14: when discovery finds no device the application keeps running, with
\* no device handle and no poll timer.
C14_DiscoveryFailureAbsorbed ==
    find_pc = "failed" => app = "running" /\ sonos = "None" /\ timer = "None"

\* The application with album selections, quitting and on_unmount.
NextShutdown ==
    \/ Startup
    \/ spawn_http_bound
    \/ select_album(MaxCommands)
    \/ AlbumStep
    \/ action_quit
    \/ on_unmount_stop
    \/ on_unmount_clear_queue
    \/ on_unmount_cleanup

SpecShutdown == Init /\ [][NextShutdown]_vars

\* C15: on_unmount with a device calls stop and then clear_queue, goes on
\* to the cleanup of the HTTP server whatever the device answers, and never
\* ends with an error.
C15_TeardownIgnoresFailures ==
    /\ unmount_pc # "error"
    /\ (unmount_pc \in {"cleanup", "done"} /\ unmount_calls # <<>>)
       => unmount_calls = <<"stop", "clear_queue">>

\* C19: once on_unmount has completed with a device, the queue of the device
\* is empty and the device is stopped, also when an album command was in
\* flight when the application began to close.
C19_TeardownLeavesDeviceIdle ==
    (unmount_pc = "done" /\ unmount_calls = <<"stop", "clear_queue">>)
    => dev.queue = <<>> /\ dev.transport = "STOPPED"

(***************************************************************************)
(* The help screen, with library loading, discovery and the poll timer.    *)
(***************************************************************************)
\* Binding("f1", "show_help_screen"): nothing while the album list is
\* loading; else self.timer.pause(), which raises AttributeError in the
\* action when self.timer is None, and self.push_screen(HelpScreen()).
action_show_help_screen ==
    /\ app = "running"
    /\ screen = "main"
    /\ ~loading
    /\ IF timer = "None"
       THEN /\ app' = "crashed"
            /\ UNCHANGED <<timer, screen, mutations>>
       ELSE /\ timer' = "paused"
            /\ screen' = "help"
            /\ mutations' = mutations \cup {<<"screen", "main">>}
            /\ app' = app
    /\ UNCHANGED <<libVars, sonos, find_pc, dev, workers, pollVars, httpVars, exitVars>>

\* HelpScreen.on_key / on_click: self.app.pop_screen(), self.app.timer.resume()
HelpScreen_quit ==
    /\ app = "running"
    /\ screen = "help"
    /\ screen' = "main"
    /\ mutations' = mutations \cup {<<"screen", "main">>}
    /\ timer' = "active"
    /\ UNCHANGED <<libVars, sonos, find_pc, dev, workers, app, pollVars, httpVars, exitVars>>

NextDisplay ==
    \/ Startup
    \/ action_show_help_screen
    \/ HelpScreen_quit
    \/ device_track_change
    \/ timer_tick
    \/ \E t \in DOMAIN ticks : tick_read(t)
    \/ \E t \in DOMAIN ticks : tick_compute(t)
    \/ \E t \in DOMAIN ticks : tick_update(t)

SpecDisplay == InitPoll /\ [][NextDisplay]_vars

\* C16: every change of a widget is made on the main loop, never by a
\* worker thread directly.
C16_DisplayChangedOnMainLoop == \A m \in mutations : m[2] = "main"

\* C18: whenever the album list is no longer loading, so that the help
\* screen can be opened, the poll timer exists.
C18_TimerExistsWhenHelpOpens == (app = "running" /\ ~loading) => timer # "None"

(***************************************************************************)
(* add_album_to_queue_and_play over every (artist, album).                 *)
(***************************************************************************)
\* add_album_to_queue_and_play(artist, album) as a worker of the group, for
\* any artist and album, in the index or not.
add_album_to_queue_and_play(limit) ==
    \E key \in Artists \X Albums : run_worker(limit, "add_album_to_queue_and_play", key, 0)

NextRequest ==
    \/ Startup
    \/ add_album_to_queue_and_play(MaxCommands)
    \/ AlbumStep

SpecRequest == Init /\ [][NextRequest]_vars

\* The (artist, album) pairs of the catalog.
CatalogKeys == {KeyOf(records[i]) : i \in DOMAIN records}

C20_TickNeverRaises ==
    /\ \A t \in DOMAIN ticks : ticks[t].pc # "error"
    /\ app = "running"

====
